---- MODULE Spec2Model ----
(***************************************************************************)
(* Model of scripts/build_installer.py: configuration deep-merge and       *)
(* validation, template-to-artifact path mapping, and the rendering loop   *)
(* with its overwrite policy and executable-bit rule.                      *)
(*                                                                         *)
(* Python dictionaries are mutable objects with identity, so they live in  *)
(* a heap (a sequence of objects addressed by index) and are referred to   *)
(* by address; strings and lists are never written by the program and are  *)
(* plain values.                                                           *)
(***************************************************************************)
EXTENDS Integers, Sequences, FiniteSets, TLC

VARIABLES
    pc,          \* position of main(): start, validate, render, loop, done, failed
    baseDoc,     \* parsed content of the --config YAML file (a tree)
    overrideDoc, \* parsed content of the --override file, or NoDoc
    heap,        \* dictionary objects of the process, by address
    base,        \* address of the loaded base mapping (0: not loaded)
    override,    \* address of the loaded override mapping (0: none)
    config,      \* address of the merged configuration (0: not built)
    context,     \* address of the rendering context (0: not built)
    verdict,     \* outcome of validate_config / the error that ended the run
    tdir,        \* files of the --templates directory: file -> body
    templates,   \* result of env.list_templates(...)
    idx,         \* position of the rendering loop in templates
    disk,        \* files under --output-dir: path -> NoFile or [text, mode]
    force,       \* the --force flag
    initDisk,    \* history: disk when the current run of main() started
    log,         \* history: artifacts written by the current run, in order
    run,         \* history: number of the current run of main()
    prev         \* history: log and verdict of the run before a re-run

cfgVars == <<baseDoc, overrideDoc, heap, base, override, config, context>>
tplVars == <<tdir, templates, idx, disk, force, initDisk, log, run, prev>>
vars == <<pc, verdict, cfgVars, tplVars>>

----------------------------------------------------------------------------
(* Values.  A tree is a YAML document: scalars, lists and nested mappings. *)
(* In the heap a nested mapping is a reference to another heap object.     *)

Str(s)  == [t |-> "str",  v |-> s]
List(s) == [t |-> "list", v |-> s]
Dict(f) == [t |-> "dict", v |-> f]
Ref(a)  == [t |-> "ref",  v |-> a]

IsDict(x) == x.t = "dict"
IsRef(x)  == x.t = "ref"

EmptyMap == <<>>
NoDoc == [t |-> "none", v |-> "none"]

\* Iteration order of dict.items(): insertion order, here the order in
\* which a document lists its keys.
KeyOrder == <<"app", "installer", "docker", "title", "version", "name", "extra", "config">>

RECURSIVE KeysFrom(_, _)
KeysFrom(m, i) ==
    IF i > Len(KeyOrder) THEN <<>>
    ELSE IF KeyOrder[i] \in DOMAIN m THEN <<KeyOrder[i]>> \o KeysFrom(m, i + 1)
    ELSE KeysFrom(m, i + 1)

Items(m) == KeysFrom(m, 1)

\* m[key] = value  (item assignment on a dictionary)
SetItem(m, key, value) ==
    [k \in (DOMAIN m) \cup {key} |-> IF k = key THEN value ELSE m[k]]

----------------------------------------------------------------------------
(* load_yaml: building the parsed document as fresh heap objects.          *)

RECURSIVE Alloc(_, _), AllocItems(_, _, _, _)
\* Allocates the mapping `m` (a tree) with all its nested mappings;
\* returns the new heap and the address of the root object.
Alloc(h, m) ==
    LET a == Len(h) + 1
    IN  [h |-> AllocItems(Append(h, EmptyMap), a, m, Items(m)), r |-> a]

AllocItems(h, a, m, ks) ==
    IF ks = <<>> THEN h
    ELSE LET k == Head(ks)
         IN  IF IsDict(m[k])
             THEN LET sub == Alloc(h, m[k].v)
                  IN  AllocItems([sub.h EXCEPT ![a] = SetItem(@, k, Ref(sub.r))],
                                 a, m, Tail(ks))
             ELSE AllocItems([h EXCEPT ![a] = SetItem(@, k, m[k])], a, m, Tail(ks))

\* The tree a heap object denotes (what a snapshot or == comparison sees).
RECURSIVE Deref(_, _)
Deref(h, a) ==
    [k \in DOMAIN h[a] |->
        IF IsRef(h[a][k]) THEN Dict(Deref(h, h[a][k].v)) ELSE h[a][k]]

----------------------------------------------------------------------------
(* deep_merge                                                              *)

RECURSIVE deep_merge(_, _, _), MergeItems(_, _, _, _)

\* A merge that starts from `base` itself instead of a copy of it.
deep_merge_inplace(h, b, o) ==
    [h |-> MergeItems(h, b, o, Items(h[o])), r |-> b]

\* deep_merge(base, override) on heap h; returns the heap after the call
\* and the address of the returned dictionary.
deep_merge(h, b, o) ==
    LET merged == Len(h) + 1                       \* merged = {**base}
    IN  [h |-> MergeItems(Append(h, h[b]), merged, o, Items(h[o])),
         r |-> merged]

\* A loop that assigns every override value without recursing.
RECURSIVE MergeItemsShallow(_, _, _, _)
MergeItemsShallow(h, merged, o, ks) ==
    IF ks = <<>> THEN h
    ELSE MergeItemsShallow([h EXCEPT ![merged] = SetItem(@, Head(ks), h[o][Head(ks)])],
                           merged, o, Tail(ks))

\* The loop `for key, value in override.items()` over the remaining keys ks.
MergeItems(h, merged, o, ks) ==
    IF ks = <<>> THEN h
    ELSE LET key   == Head(ks)
             value == h[o][key]
         IN  IF /\ key \in DOMAIN h[merged]
                /\ IsRef(h[merged][key])
                /\ IsRef(value)
             THEN LET sub == deep_merge(h, h[merged][key].v, value.v)
                  IN  MergeItems([sub.h EXCEPT ![merged] = SetItem(@, key, Ref(sub.r))],
                                 merged, o, Tail(ks))
             ELSE MergeItems([h EXCEPT ![merged] = SetItem(@, key, value)],
                             merged, o, Tail(ks))

----------------------------------------------------------------------------
(* Bounded input documents for the merge.                                  *)

MaxEntries == 3
MaxOverrideEntries == 2

MergeKeys == {"app", "name"}
Leaves == {Str("x"), List(<<"y">>)}

RECURSIVE Size(_)
Size(m) ==
    LET RECURSIVE Sum(_)
        Sum(S) == IF S = {} THEN 0
                  ELSE LET k == CHOOSE k \in S : TRUE
                       IN  1 + (IF IsDict(m[k]) THEN Size(m[k].v) ELSE 0)
                             + Sum(S \ {k})
    IN  Sum(DOMAIN m)

RECURSIVE Docs(_)
\* All mappings over MergeKeys with at most n entries, nested ones included.
Docs(n) ==
    IF n = 0 THEN {EmptyMap}
    ELSE LET vals == Leaves \cup {Dict(d) : d \in Docs(n - 1)}
         IN  {f \in UNION {[S -> vals] : S \in SUBSET MergeKeys} : Size(f) <= n}

----------------------------------------------------------------------------
(* build_context and validate_config                                       *)

NoError == [kind |-> "none"]

\* Loads the documents, merges the override when one is given, and adds
\* the self reference: context = {**config, "config": config}.
build_context(default_config, override_config) ==
    LET b   == Alloc(<<>>, default_config)
        o   == IF override_config # NoDoc THEN Alloc(b.h, override_config)
               ELSE [h |-> b.h, r |-> 0]
        m   == IF override_config # NoDoc THEN deep_merge(o.h, b.r, o.r)
               ELSE [h |-> b.h, r |-> b.r]
        ctx == Len(m.h) + 1
    IN  [h |-> Append(m.h, SetItem(m.h[m.r], "config", Ref(m.r))),
         base |-> b.r, override |-> o.r, config |-> m.r, context |-> ctx]

required_sections == <<"app", "installer", "docker">>

RECURSIVE Join(_, _)
\* sep.join(parts), as the sequence of the pieces of the resulting string
Join(sep, parts) ==
    IF Len(parts) <= 1 THEN parts
    ELSE <<Head(parts), sep>> \o Join(sep, Tail(parts))

\* A validation that reports the first absent section only.
validate_first_missing(c) ==
    IF DOMAIN c = {} THEN [kind |-> "empty"]
    ELSE LET missing == SelectSeq(required_sections, LAMBDA key : key \notin DOMAIN c)
         IN  IF missing # <<>>
             THEN [kind |-> "missing", message |-> <<Head(missing)>>]
             ELSE NoError

\* validate_config(config): the error it raises, or NoError.
validate_config(c) ==
    IF DOMAIN c = {} THEN [kind |-> "empty"]
    ELSE LET missing == SelectSeq(required_sections, LAMBDA key : key \notin DOMAIN c)
         IN  IF missing # <<>>
             THEN [kind |-> "missing", message |-> Join(", ", missing)]
             ELSE NoError

----------------------------------------------------------------------------
(* Steps of main() before rendering.                                       *)

BuildContext ==
    /\ pc = "start"
    /\ LET c == build_context(baseDoc, overrideDoc)
       IN  /\ heap' = c.h
           /\ base' = c.base
           /\ override' = c.override
           /\ config' = c.config
           /\ context' = c.context
    /\ pc' = "validate"
    /\ UNCHANGED <<baseDoc, overrideDoc, verdict, tplVars>>

Validate ==
    /\ pc = "validate"
    /\ LET v == validate_config(heap[context])
       IN  /\ verdict' = v
           /\ pc' = IF v = NoError THEN "render" ELSE "failed"
    /\ UNCHANGED <<cfgVars, tplVars>>

----------------------------------------------------------------------------
(* The merge alone: two documents loaded and merged.                       *)

\* The rendering state of a process that renders nothing.
Idle ==
    /\ tdir = <<>>
    /\ templates = <<>>
    /\ idx = 0
    /\ disk = <<>>
    /\ force = FALSE
    /\ initDisk = <<>>
    /\ log = <<>>
    /\ run = 1
    /\ prev = NoError

Unloaded ==
    /\ heap = <<>>
    /\ base = 0
    /\ override = 0
    /\ config = 0
    /\ context = 0

InitMerge ==
    /\ baseDoc \in Docs(MaxEntries)
    /\ overrideDoc \in Docs(MaxOverrideEntries)
    /\ Unloaded
    /\ pc = "start"
    /\ verdict = NoError
    /\ Idle

NextMerge == BuildContext

SpecMerge == InitMerge /\ [][NextMerge]_vars

----------------------------------------------------------------------------
(* The validation alone: validate_config applied to a mapping.             *)

ValidateKeys == {"app", "installer", "docker", "config", "extra"}
ValidateValues == {Str("x"), Dict(EmptyMap)}

InitValidate ==
    /\ baseDoc \in UNION {[S -> ValidateValues] : S \in SUBSET ValidateKeys}
    /\ overrideDoc = NoDoc
    /\ LET c == Alloc(<<>>, baseDoc)
       IN  /\ heap = c.h
           /\ base = c.r
           /\ config = c.r
           /\ context = c.r
    /\ override = 0
    /\ pc = "validate"
    /\ verdict = NoError
    /\ Idle

NextValidate == Validate

SpecValidate == InitValidate /\ [][NextValidate]_vars

----------------------------------------------------------------------------
(* Template names and paths.                                               *)
(*                                                                         *)
(* A path is the sequence of its components, and a component the sequence  *)
(* of the pieces between its dots: "sub/installer.sh.j2" is                *)
(* << <<"sub">>, <<"installer", "sh", "j2">> >>, ".sh" is <<"", "sh">>     *)
(* and the empty string is <<"">>.                                         *)

Last(q) == q[Len(q)]
Front(q) == SubSeq(q, 1, Len(q) - 1)

\* name.endswith(".j2")
EndsWithJ2(name) ==
    /\ Len(Last(name)) >= 2
    /\ Last(Last(name)) = "j2"

\* template_name[:-3], for a name that ends with ".j2"
StripJ2(name) == Front(name) \o <<Front(Last(name))>>

\* Path(s): empty components are dropped
Path(s) == SelectSeq(s, LAMBDA c : c # <<"">>)

\* path.name
Name(path) == IF path = <<>> THEN <<"">> ELSE Last(path)

\* path.with_name(name)
WithName(path, name) == Front(path) \o <<name>>

\* path.suffix: the part of the name from its last dot on, when that dot is
\* neither the first nor the last character of the name; else empty.
Suffix(path) ==
    LET name == Name(path)
        n    == Len(name)
    IN  IF /\ n >= 2
           /\ ~(n = 2 /\ name[1] = "")
           /\ name[n] # ""
        THEN <<"", name[n]>>
        ELSE <<"">>

InstallerSh == <<"installer", "sh">>
HomelabInstallSh == <<"homelab-install", "sh">>
DotSh == <<"", "sh">>

\* A rewrite of every name that ends with installer.sh.
relative_output_loose(template_name) ==
    LET stripped == Path(StripJ2(template_name))
        name     == Name(stripped)
    IN  IF Len(name) >= 2 /\ Last(name) = "sh"
           /\ name[Len(name) - 1] \in {"installer", "my-installer"}
        THEN WithName(stripped, HomelabInstallSh)
        ELSE stripped

\* A mapping that keeps the file name only and drops the directory.
relative_output_flat(template_name) ==
    LET name == Name(Path(StripJ2(template_name)))
    IN  IF name = InstallerSh THEN <<HomelabInstallSh>> ELSE <<name>>

\* The artifact's path below output_dir for a template name.
relative_output(template_name) ==
    LET stripped == Path(StripJ2(template_name))
    IN  IF Name(stripped) = InstallerSh
        THEN WithName(stripped, HomelabInstallSh)
        ELSE stripped

\* A mode rule that looks at the last characters of the path only.
mode_after_write_endswith(path, before) ==
    IF Len(Name(path)) >= 2 /\ Last(Name(path)) = "sh" THEN "0755" ELSE before

\* The permission mode of an artifact after write_text and the chmod;
\* `before` is the mode write_text left it with.
mode_after_write(path, before) ==
    IF Suffix(path) = DotSh THEN "0755" ELSE before

----------------------------------------------------------------------------
(* The template directory.                                                 *)

\* The files a template directory may hold, in the sorted order in which
\* list_templates returns names.  Every template has a name before its
\* ".j2"; the output directory holds regular files only.
TemplateFiles == <<
    << <<"", "sh", "j2">> >>,
    << <<"README", "md", "j2">> >>,
    << <<"homelab-install", "sh", "j2">> >>,
    << <<"installer", "sh", "j2">> >>,
    << <<"my-installer", "sh", "j2">> >>,
    << <<"notes", "txt">> >>,
    << <<"sub">>, <<"installer", "sh", "j2">> >> >>

FileSet == {TemplateFiles[i] : i \in DOMAIN TemplateFiles}

\* A template body is the text "echo " followed by one substitution
\* {{ a.b }}, given by the names of the lookup.
Bodies == {<<"app", "name">>, <<"version">>, <<"title", "name">>}
PlainBody == <<>>

\* env.list_templates(filter_func=...): the names that end with ".j2", sorted.
list_templates(dir) ==
    SelectSeq(TemplateFiles, LAMBDA f : f \in DOMAIN dir /\ EndsWithJ2(f))

----------------------------------------------------------------------------
(* Rendering.                                                              *)

Undefined == [t |-> "undefined", v |-> "undefined"]
UndefinedError == [t |-> "error", v |-> "UndefinedError"]

RECURSIVE Resolve(_, _, _)
\* The value of the lookup `attrs` starting from `value`.  A name missing
\* from a mapping gives the engine's Undefined (the Environment is built
\* without an `undefined` argument); a lookup on Undefined raises.
Resolve(h, value, attrs) ==
    IF attrs = <<>> THEN value
    ELSE IF value = Undefined THEN UndefinedError
    ELSE IF IsRef(value) /\ Head(attrs) \in DOMAIN h[value.v]
         THEN Resolve(h, h[value.v][Head(attrs)], Tail(attrs))
         ELSE Resolve(h, Undefined, Tail(attrs))

\* What a substitution prints for a value.
Printed(value) ==
    IF value = Undefined THEN ""
    ELSE IF value.t = "str" THEN value.v
    ELSE "<repr>"

\* template.render(**context): the rendered text, or the error raised.
render(h, ctx, body) ==
    LET value == Resolve(h, Ref(ctx), body)
    IN  IF value = UndefinedError THEN [ok |-> FALSE, text |-> <<>>]
        ELSE [ok |-> TRUE, text |-> <<"echo ", Printed(value)>>]

----------------------------------------------------------------------------
(* render_templates                                                        *)

ListTemplates ==
    /\ pc = "render"
    /\ templates' = list_templates(tdir)
    /\ idx' = 1
    /\ pc' = "loop"
    /\ UNCHANGED <<verdict, cfgVars, tdir, disk, force, initDisk, log, run, prev>>

\* A check that refuses to overwrite even with force.
conflict_ignoring_force(output_path, d, f) == output_path \in DOMAIN d

\* output_path.exists() and not force
conflict(output_path, d, f) == output_path \in DOMAIN d /\ ~f

\* A failure that first removes the artifacts the run has written.
after_conflict_rollback(d, written, init) ==
    LET mine == {written[j].path : j \in DOMAIN written}
    IN  [p \in ((DOMAIN d) \ mine) \cup (DOMAIN init) |->
            IF p \in DOMAIN init THEN init[p] ELSE d[p]]

\* The files after FileExistsError is raised: the loop is left and what
\* earlier iterations wrote stays.
after_conflict(d, written, init) == d

\* One iteration of the loop over templates.
RenderOne ==
    /\ pc = "loop"
    /\ idx <= Len(templates)
    /\ LET template_name == templates[idx]
           output_path   == relative_output(template_name)
           rendered      == render(heap, context, tdir[template_name])
           before        == IF output_path \in DOMAIN disk
                            THEN disk[output_path].mode ELSE "0644"
       IN  IF conflict(output_path, disk, force)
           THEN /\ verdict' = [kind |-> "exists", path |-> output_path]
                /\ pc' = "failed"
                /\ disk' = after_conflict(disk, log, initDisk)
                /\ UNCHANGED <<log, idx>>
           ELSE IF ~rendered.ok
           THEN /\ verdict' = [kind |-> "undefined", path |-> output_path]
                /\ pc' = "failed"
                /\ UNCHANGED <<disk, log, idx>>
           ELSE /\ disk' = SetItem(disk, output_path,
                               [text |-> rendered.text,
                                mode |-> mode_after_write(output_path, before)])
                /\ log' = Append(log, [template |-> template_name,
                                       path |-> output_path,
                                       text |-> rendered.text])
                /\ idx' = idx + 1
                /\ UNCHANGED <<pc, verdict>>
    /\ UNCHANGED <<cfgVars, tdir, templates, force, initDisk, run, prev>>

RenderDone ==
    /\ pc = "loop"
    /\ idx > Len(templates)
    /\ pc' = "done"
    /\ UNCHANGED <<verdict, cfgVars, tplVars>>

----------------------------------------------------------------------------
(* The whole program, with a re-run after an overwrite conflict.           *)

MaxFiles == 2
MaxExisting == 1
MaxRetries == 1

\* The user removes the file the failed run named and runs the program
\* again with the same arguments.
Retry ==
    /\ pc = "failed"
    /\ verdict.kind = "exists"
    /\ run <= MaxRetries
    /\ disk' = [p \in (DOMAIN disk) \ {verdict.path} |-> disk[p]]
    /\ initDisk' = disk'
    /\ prev' = [kind |-> verdict.kind, path |-> verdict.path, log |-> log]
    /\ run' = run + 1
    /\ log' = <<>>
    /\ templates' = <<>>
    /\ idx' = 0
    /\ verdict' = NoError
    /\ pc' = "start"
    /\ heap' = <<>>
    /\ base' = 0
    /\ override' = 0
    /\ config' = 0
    /\ context' = 0
    /\ UNCHANGED <<baseDoc, overrideDoc, tdir, force>>

Demo == [name |-> Str("demo")]
MainBases ==
    { [app |-> Dict(Demo), installer |-> Dict(EmptyMap), docker |-> Dict(EmptyMap)],
      [app |-> Dict(EmptyMap), docker |-> Dict(EmptyMap)] }
MainOverrides ==
    { NoDoc,
      [installer |-> Dict(EmptyMap), title |-> Dict([name |-> Str("t")]),
       version |-> Str("1")] }

\* The artifact paths of a template directory; files elsewhere under the
\* output directory are never looked at.
OutputPaths(dir) == {relative_output(f) : f \in {g \in DOMAIN dir : EndsWithJ2(g)}}
OldFile == [text |-> <<"old">>, mode |-> "0644"]

Dirs ==
    LET sets == {S \in SUBSET FileSet : Cardinality(S) <= MaxFiles}
    IN  UNION { {d \in [S -> Bodies \cup {PlainBody}] :
                    \A f \in S : (d[f] = PlainBody) <=> ~EndsWithJ2(f)} : S \in sets }

Init ==
    /\ baseDoc \in MainBases
    /\ overrideDoc \in MainOverrides
    /\ Unloaded
    /\ pc = "start"
    /\ verdict = NoError
    /\ tdir \in Dirs
    /\ templates = <<>>
    /\ idx = 0
    /\ \E S \in SUBSET OutputPaths(tdir) :
          /\ Cardinality(S) <= MaxExisting
          /\ disk = [p \in S |-> OldFile]
    /\ initDisk = disk
    /\ force \in BOOLEAN
    /\ log = <<>>
    /\ run = 1
    /\ prev = NoError

Next ==
    \/ BuildContext
    \/ Validate
    \/ ListTemplates
    \/ RenderOne
    \/ RenderDone
    \/ Retry

Spec == Init /\ [][Next]_vars

----------------------------------------------------------------------------
(* Claims about deep_merge, checked under SpecMerge.                       *)

\* C2: deep_merge(A, B) leaves A and B unmodified: after the call the base
\* and the override, with every nested mapping reachable from them, have
\* the keys and values they were loaded with.
C2_InputsUnmodified ==
    config # 0 =>
        /\ Deref(heap, base) = baseDoc
        /\ Deref(heap, override) = overrideDoc

\* A merge that recursed into a nested mapping present on both sides and
\* added or replaced a key inside it.
C2_Witness ==
    /\ pc = "validate"
    /\ "app" \in DOMAIN baseDoc /\ "app" \in DOMAIN overrideDoc
    /\ IsDict(baseDoc["app"]) /\ IsDict(overrideDoc["app"])
    /\ overrideDoc["app"].v # EmptyMap
    /\ Deref(heap, config)["app"] # baseDoc["app"]

RECURSIVE MergedAs(_, _, _)
\* M is the merge of A and B as the claim describes it, key by key.
MergedAs(A, B, M) ==
    /\ DOMAIN M = (DOMAIN A) \cup (DOMAIN B)
    /\ \A k \in DOMAIN M :
          IF k \notin DOMAIN B THEN M[k] = A[k]
          ELSE IF k \in DOMAIN A /\ IsDict(A[k]) /\ IsDict(B[k])
               THEN IsDict(M[k]) /\ MergedAs(A[k].v, B[k].v, M[k].v)
               ELSE M[k] = B[k]

\* C3: M = deep_merge(A, B) has the keys of A united with the keys of B;
\* a key only in A keeps A's value, a key holding mappings on both sides
\* holds their recursive merge, and every other key of B holds B's value.
C3_MergeResult ==
    config # 0 => MergedAs(baseDoc, overrideDoc, Deref(heap, config))

\* A merge two levels deep: mappings under "app" on both sides, and
\* mappings again under a key inside them.
C3_Witness ==
    /\ pc = "validate"
    /\ \E k \in MergeKeys :
          /\ "app" \in DOMAIN baseDoc /\ "app" \in DOMAIN overrideDoc
          /\ IsDict(baseDoc["app"]) /\ IsDict(overrideDoc["app"])
          /\ k \in DOMAIN baseDoc["app"].v /\ k \in DOMAIN overrideDoc["app"].v
          /\ IsDict(baseDoc["app"].v[k]) /\ IsDict(overrideDoc["app"].v[k])
          /\ baseDoc["app"].v[k].v # EmptyMap
          /\ Deref(heap, config)["app"].v[k] = baseDoc["app"].v[k]

----------------------------------------------------------------------------
(* Claim about validate_config, checked under SpecValidate.                *)

Absent(c) == {k \in {"app", "installer", "docker"} : k \notin DOMAIN c}

\* C4: validate_config(c) fails with the empty-configuration error when c
\* has no entries; otherwise with a missing-sections error naming every
\* absent key among app, installer, docker, comma-joined in that order,
\* when one is absent; and returns normally when all three are present,
\* whatever their values and whatever other keys c holds.
C4_Validate ==
    pc # "validate" =>
        LET c == baseDoc
        IN  /\ c = EmptyMap => verdict = [kind |-> "empty"] /\ pc = "failed"
            /\ c # EmptyMap /\ Absent(c) # {} =>
                  /\ pc = "failed"
                  /\ verdict.kind = "missing"
                  /\ verdict.message \in
                        { <<"app">>, <<"installer">>, <<"docker">>,
                          <<"app", ", ", "installer">>, <<"app", ", ", "docker">>,
                          <<"installer", ", ", "docker">>,
                          <<"app", ", ", "installer", ", ", "docker">> }
                  /\ {verdict.message[i] : i \in DOMAIN verdict.message} \ {", "}
                        = Absent(c)
            /\ Absent(c) = {} => verdict = NoError /\ pc = "render"

\* A non-empty mapping that holds other keys but neither app nor docker
\* was rejected.
C4_Witness ==
    /\ pc = "failed"
    /\ Absent(baseDoc) = {"app", "docker"}
    /\ "extra" \in DOMAIN baseDoc

----------------------------------------------------------------------------
(* Claims about render_templates and main, checked under Spec.             *)

Rendering == pc = "loop" /\ idx <= Len(templates)
WrittenPaths == {log[j].path : j \in DOMAIN log}

\* The last characters of the path are ".sh".
EndsInSh(path) == Len(Name(path)) >= 2 /\ Last(Name(path)) = "sh"

C5_OutputPath ==
    \A j \in DOMAIN log :
        LET d == Front(log[j].template)
            n == Front(Last(log[j].template))
        IN  log[j].path =
                d \o << IF n = <<"installer", "sh">>
                        THEN <<"homelab-install", "sh">> ELSE n >>

\* sub/installer.sh.j2 was written as sub/homelab-install.sh and
\* my-installer.sh.j2 under its own name.
C5_Witness ==
    /\ \E j \in DOMAIN log :
          /\ log[j].template = << <<"sub">>, <<"installer", "sh", "j2">> >>
          /\ log[j].path = << <<"sub">>, <<"homelab-install", "sh">> >>
    /\ \E j \in DOMAIN log :
          /\ log[j].template = << <<"my-installer", "sh", "j2">> >>
          /\ log[j].path = << <<"my-installer", "sh">> >>

\* C6 as stated: every written artifact whose path ends in the characters
\* .sh has mode 0755, a file whose whole name is .sh included.
C6_Original ==
    \A p \in WrittenPaths : EndsInSh(p) => disk[p].mode = "0755"

\* C6 amended: every written artifact whose name ends in .sh after at
\* least one other character has mode 0755 (homelab-install.sh included);
\* a file whose whole name is .sh has no suffix and keeps the mode it had
\* or was created with.
C6_ExecutableSuffix ==
    \A p \in WrittenPaths :
        /\ EndsInSh(p) /\ Name(p) # <<"", "sh">> => disk[p].mode = "0755"
        /\ Name(p) = <<"", "sh">> =>
              disk[p].mode = IF p \in DOMAIN initDisk THEN initDisk[p].mode ELSE "0644"

\* installer.sh.j2 was written as homelab-install.sh with mode 0755.
C6_Witness ==
    \E j \in DOMAIN log :
        /\ Last(log[j].template) = <<"installer", "sh", "j2">>
        /\ Name(log[j].path) = <<"homelab-install", "sh">>
        /\ disk[log[j].path].mode = "0755"

\* C7: when the i-th template hits an overwrite conflict the run stops
\* there: the artifacts of templates 1..i-1 are on disk with their rendered
\* text, and every other file, the conflicting one and the artifacts of
\* later templates included, is as it was when the run started.
C7_FailFastNoRollback ==
    (pc = "failed" /\ verdict.kind = "exists") =>
        /\ ~force
        /\ idx \in DOMAIN templates
        /\ verdict.path = relative_output(templates[idx])
        /\ verdict.path \in DOMAIN disk
        /\ Len(log) = idx - 1
        /\ \A j \in 1..(idx - 1) :
              /\ log[j].template = templates[j]
              /\ log[j].path \in DOMAIN disk
              /\ disk[log[j].path].text = log[j].text
              /\ log[j].text = render(heap, context, tdir[templates[j]]).text
        /\ \A p \in (DOMAIN disk) \ WrittenPaths :
              p \in DOMAIN initDisk /\ disk[p] = initDisk[p]
        /\ \A p \in DOMAIN initDisk : p \in DOMAIN disk

\* A run that wrote an artifact and then stopped on a conflict.
C7_Witness ==
    /\ pc = "failed"
    /\ verdict.kind = "exists"
    /\ idx = 2
    /\ verdict.path \in DOMAIN initDisk
    /\ disk[verdict.path] = OldFile
    /\ log[1].path \notin DOMAIN initDisk

RECURSIVE Misses(_, _)
\* The lookup `attrs` names a key that the mapping m, or a mapping
\* reached on the way, does not hold.
Misses(m, attrs) ==
    IF attrs = <<>> THEN FALSE
    ELSE IF Head(attrs) \notin DOMAIN m THEN TRUE
    ELSE IF IsDict(m[Head(attrs)]) THEN Misses(m[Head(attrs)].v, Tail(attrs))
    ELSE Tail(attrs) # <<>>

\* C8: a template that references a variable missing from the context, or
\* an attribute missing from a context mapping, gets no artifact written.
C8_MissSurfaces ==
    context # 0 =>
        \A j \in DOMAIN log : ~Misses(Deref(heap, context), tdir[log[j].template])

\* The failed run before a re-run had only the fixed cause: the files left
\* on disk are its own artifacts, every template renders, and no two
\* templates share an output path.
OnlyCauseFixed ==
    /\ run > 1
    /\ prev.kind = "exists"
    /\ DOMAIN initDisk \subseteq {prev.log[j].path : j \in DOMAIN prev.log}
    /\ \A i \in DOMAIN templates : render(heap, context, tdir[templates[i]]).ok
    /\ \A i, j \in DOMAIN templates :
          relative_output(templates[i]) = relative_output(templates[j]) => i = j

ArtifactsComplete ==
    \A i \in DOMAIN templates :
        /\ relative_output(templates[i]) \in DOMAIN disk
        /\ disk[relative_output(templates[i])].text
              = render(heap, context, tdir[templates[i]]).text

\* C9 as stated: after a run failed on an overwrite conflict and only the
\* conflicting file was removed, the re-run succeeds with every artifact
\* on disk.
C9_Original ==
    (OnlyCauseFixed /\ pc \in {"done", "failed"}) =>
        pc = "done" /\ ArtifactsComplete

\* C9 amended: after a run failed on an overwrite conflict at template i
\* (force false) and only the conflicting file was removed, a re-run with
\* the same arguments fails again with an overwrite conflict, at template
\* i at the latest, whenever the failed run had written an artifact; a
\* re-run that completes follows a failed run that wrote nothing, and then
\* every template's artifact is on disk with its rendered text.
C9_RetryAfterConflict ==
    (run > 1 /\ pc \in {"done", "failed"}) =>
        /\ prev.log # <<>> =>
              /\ pc = "failed"
              /\ verdict.kind = "exists"
              /\ idx <= Len(prev.log) + 1
        /\ pc = "done" => prev.log = <<>> /\ ArtifactsComplete

\* A re-run that failed on an artifact the failed run had left behind.
C9_Witness ==
    /\ run > 1
    /\ pc = "failed"
    /\ prev.log # <<>>
    /\ verdict.path = prev.log[1].path
    /\ verdict.path # prev.path

SiblingHomelab(template_name) ==
    Front(template_name) \o << <<"homelab-install", "sh", "j2">> >>

====
